---------------------------- MODULE Spec2Model ----------------------------
(***************************************************************************)
(* A model of TBGatewayService                                             *)
(* (src/thingsboard_gateway/gateway/tb_gateway_service.py): the ingress    *)
(* worker (__send_to_storage), the uplink worker                           *)
(* (__read_data_from_storage), the device registry, the RPC timeout        *)
(* bookkeeping and the main loop that drives them.                         *)
(*                                                                         *)
(* Conventions.                                                            *)
(*  - A Python dict is a TLA+ function whose DOMAIN is the set of keys.    *)
(*  - A connector object is identified with the name get_name() returns.   *)
(*  - Sizes are in abstract units: StrSize stands for                      *)
(*    getsizeof(str(x)) - 2, which grows with the number of keys of x.     *)
(*  - Variables named h_* are history variables: they record what the      *)
(*    program did (publishes, acknowledgements, replies) and are never     *)
(*    read by a guard or an assignment of a program variable.              *)
(*  - The configuration modelled has remoteConfiguration off               *)
(*    (__remote_configurator is None, line 134/392).                       *)
(***************************************************************************)
EXTENDS Integers, Sequences, FiniteSets, TLC

(***************************************************************************)
(* Bounds of the model.                                                    *)
(***************************************************************************)
\* thingsboard.maxPayloadSizeBytes (line 254), in the units of StrSize
MaxPayloadSizeBytes == 4
\* events one getEventPack returns at most
PackSize == 3
\* events the storage holds at most (put is rejected beyond)
MaxStored == 3
\* completion tokens waiting in _published_events at most
MaxPublished == 3
\* threads inside send_rpc_reply at the same time
MaxRepliers == 1

(***************************************************************************)
(* Names.                                                                  *)
(***************************************************************************)
\* self.name (line 68): the gateway's own random name
GatewayName == "gw"
\* the reserved self identity (line 471, 498)
SelfDevice == "currentThingsBoardGateway"
\* names of the connectors _load_connectors put in available_connectors
Connectors == {"c1", "c2"}
\* a connector name found in connected_devices.json that is not loaded
OrphanConnector == "c9"
Devices == {"d1", "d2"}
\* a key that the dict does not have
NoKey == "<absent>"
Keys == {"k1", "k2"}

(***************************************************************************)
(* Dicts.                                                                  *)
(***************************************************************************)
EmptyMap == [x \in {} |-> 0]

MapPut(m, k, v) == [x \in DOMAIN m \cup {k} |-> IF x = k THEN v ELSE m[x]]

MapDel(m, k) == [x \in DOMAIN m \ {k} |-> m[x]]

\* {**a, **b} and a.update(b.items()): the keys of b overwrite those of a
MapMerge(a, b) == [x \in DOMAIN a \cup DOMAIN b |-> IF x \in DOMAIN b THEN b[x] ELSE a[x]]

Map1(k, v) == [x \in {k} |-> v]

Map2(v1, v2) == [x \in Keys |-> IF x = "k1" THEN v1 ELSE v2]

(***************************************************************************)
(* State.                                                                  *)
(***************************************************************************)
VARIABLES
    \* the cloud transport
    connected,          \* tb_client.is_connected()
    qos,                \* tb_client.client.quality_of_service
    stopped,            \* self.stopped
    rpc_reply_sent,     \* self.__rpc_reply_sent
    repliers,           \* threads between line 607 and line 623 of send_rpc_reply
    \* the event storage (get_event_pack / event_pack_processing_done / put)
    storage_q,          \* the events stored and not checked out
    event_pack,         \* the pack checked out and not committed
    \* the uplink worker, __read_data_from_storage
    upc,                \* its position
    events,             \* local: the pack it works on
    ei,                 \* local: index of the next event of the pack to fold
    acc,                \* local: devices_data_in_event_pack
    size,               \* local: size
    published_events,   \* self._published_events
    success,            \* local: success
    event,              \* local: the token taken at line 330
    h_acked,            \* ids of the events carried by an acknowledged publish
    h_retired,          \* ids of the events retired by event_pack_processing_done
    h_round,            \* the publishes made since the last checkout
    h_drain_failed,     \* a token drained since line 322 reported a failure
    h_lost,             \* the connection was lost since the last checkout
    \* the device registry
    connected_devices,  \* self.__connected_devices
    saved_devices,      \* self._saved_devices
    devices_file,       \* the content of connected_devices.json
    h_file0,            \* the content of connected_devices.json at startup
    h_expected,         \* startup entries, plus devices added, minus devices deleted
    h_connect_calls,    \* gw_connect_device calls, counted per device
    h_disconnect_calls, \* gw_disconnect_device calls, counted per device
    h_api_calls,        \* add_device / update_device / del_device calls made by connectors
    add_threads,        \* threads inside add_device: position and locals of each
    \* the ingress worker, __send_to_storage
    converted_data_queue,           \* self.__converted_data_queue
    ingress_alive,                  \* the thread started at line 107 is running
    connector_incoming_messages,    \* self._connector_incoming_messages
    h_sent,             \* send_to_storage calls
    h_puts,             \* _event_storage.put calls
    h_last,             \* what the ingress worker did with the last item it took
    h_own,              \* ids of the events stored for items sent under the gateway's own name
    \* RPC requests awaiting a reply
    rpc_register_queue,         \* self._rpc_register_queue
    rpc_requests_in_progress,   \* self._rpc_requests_in_progress
    h_registered,       \* register_rpc_request_timeout calls
    h_replies,          \* replies sent to the cloud, per request id
    h_cancelled,        \* request ids whose cancel callback was invoked
    remote_shell,       \* self.__remote_shell is not None
    h_requests,         \* _rpc_request_handler calls
    h_gw_replies,       \* replies sent by _rpc_request_handler, per request
    h_handled,          \* the last request _rpc_request_handler got, and the connectors' answers
    h_reply_calls,      \* the send_rpc_reply calls made, each with what it published
    \* the main loop
    now,                \* time(), in ticks
    subscribed,         \* self.__subscribed_to_rpc_topics
    sheduled_rpc_calls, \* self.__sheduled_rpc_calls
    h_scheduled,        \* calls appended to __sheduled_rpc_calls so far
    h_invoked           \* how many times each scheduled call was invoked

uplinkVars == <<upc, events, ei, acc, size, published_events, success, event,
                h_acked, h_retired, h_round, h_drain_failed, h_lost>>

storageVars == <<storage_q, event_pack>>

cloudVars == <<connected, qos, stopped, rpc_reply_sent, repliers>>

regVars == <<connected_devices, saved_devices, devices_file, h_file0, h_expected,
             h_connect_calls, h_disconnect_calls, h_api_calls, add_threads>>

ingVars == <<converted_data_queue, ingress_alive, connector_incoming_messages,
             h_sent, h_puts, h_last, h_own>>

rpcVars == <<rpc_register_queue, rpc_requests_in_progress, h_registered, h_replies,
             h_cancelled, remote_shell, h_requests, h_gw_replies, h_handled, h_reply_calls>>

mainVars == <<now, subscribed, sheduled_rpc_calls, h_scheduled, h_invoked>>

\* what neither the uplink worker nor the transport writes
serviceVars == <<regVars, ingVars, rpcVars, mainVars>>

vars == <<cloudVars, storageVars, uplinkVars, serviceVars>>

(***************************************************************************)
(* Stored events.  An event is what dumps(data) of line 485 holds:         *)
(* deviceName, telemetry as normalised by lines 473-483 (a list of         *)
(* {ts, values}, or one {ts, values} object) and the connector's           *)
(* attributes (absent, one dict, or a list of dicts).  id is the event's   *)
(* identity, used by the history variables only.                           *)
(***************************************************************************)
\* getsizeof(str(x)) - 2 of a dict: grows with the number of its keys
StrSize(m) == Cardinality(DOMAIN m)

\* of a telemetry entry {ts, values}
EntrySize(e) == 1 + StrSize(e.values)

RECURSIVE SumEntrySizes(_)
SumEntrySizes(s) == IF s = <<>> THEN 0 ELSE EntrySize(Head(s)) + SumEntrySizes(Tail(s))

Entry(ts, values) == [ts |-> ts, values |-> values]

NoAttributes == [shape |-> "absent", items |-> <<>>]

Event(id, dev, tshape, titems, attrs) ==
    [id |-> id, deviceName |-> dev,
     telemetry |-> [shape |-> tshape, items |-> titems], attributes |-> attrs]

\* the events the uplink specification finds in the storage at start: outputs
\* of the ingress worker left there by an earlier run
EventBodies ==
    { Event(0, "d1", "obj", <<Entry(1, Map2(1, 1))>>, NoAttributes),
      Event(0, "d1", "obj", <<Entry(1, Map2(1, 1))>>,
            [shape |-> "map", items |-> <<Map1("k2", 2)>>]),
      Event(0, "d2", "list", <<Entry(1, Map2(1, 2)), Entry(2, Map1("k1", 2))>>,
            [shape |-> "list", items |-> <<Map1("k1", 1)>>]),
      Event(0, SelfDevice, "obj", <<Entry(1, Map1("k1", 1))>>, NoAttributes) }

(***************************************************************************)
(* Event storage (the backends are not part of the source file; the        *)
(* contract is the one their callers rely on).                             *)
(***************************************************************************)
Min(a, b) == IF a < b THEN a ELSE b

\* get_event_pack(): the pack checked out, or up to PackSize events checked out now
PackAfterGet(pack, q) == IF pack # <<>> THEN pack ELSE SubSeq(q, 1, Min(PackSize, Len(q)))

QueueAfterGet(pack, q) == IF pack # <<>> THEN q ELSE SubSeq(q, Min(PackSize, Len(q)) + 1, Len(q))

\* put(): accepted while there is room
PutAccepted(pack, q) == Len(pack) + Len(q) < MaxStored

(***************************************************************************)
(* __send_data (lines 494-515) and check_size (lines 253-257).             *)
(* devices_data_in_event_pack is a sequence of entries in the dict's       *)
(* insertion order: [device, telemetry, attributes]; attr_evs and the ev   *)
(* of a telemetry entry name the events the data came from.                *)
(***************************************************************************)
AccEntry(dev) == [device |-> dev, telemetry |-> <<>>, attributes |-> EmptyMap, attr_evs |-> {}]

AccHas(a, dev) == \E i \in DOMAIN a : a[i].device = dev

AccIndex(a, dev) == CHOOSE i \in DOMAIN a : a[i].device = dev

\* getsizeof(str(devices_data_in_event_pack)) - 2 (line 266)
RECURSIVE AccSize(_)
AccSize(a) ==
    IF a = <<>> THEN 0
    ELSE SumEntrySizes(Head(a).telemetry) + StrSize(Head(a).attributes) + AccSize(Tail(a))

\* a send that takes the multiplexed channel whatever the device
ChannelAlwaysMultiplexed(dev) == "gw"

\* lines 498 and 506
Channel(dev) == IF dev = GatewayName \/ dev = SelfDevice THEN "self" ELSE "gw"

Token(d, kind, evs, sz, trigger, conn) ==
    [device |-> d.device, kind |-> kind, channel |-> Channel(d.device), evs |-> evs,
     size |-> sz, trigger |-> trigger, sent_connected |-> conn]

\* lines 497-512 for one device: attributes first, then telemetry
DeviceTokens(d, trigger, conn) ==
    (IF DOMAIN d.attributes # {}
        THEN <<Token(d, "attributes", d.attr_evs, StrSize(d.attributes), trigger, conn)>>
        ELSE <<>>)
    \o
    (IF d.telemetry # <<>>
        THEN <<Token(d, "telemetry", {d.telemetry[i].ev : i \in DOMAIN d.telemetry},
                     SumEntrySizes(d.telemetry), trigger, conn)>>
        ELSE <<>>)

RECURSIVE AllTokens(_, _, _)
AllTokens(a, trigger, conn) ==
    IF a = <<>> THEN <<>>
    ELSE DeviceTokens(Head(a), trigger, conn) \o AllTokens(Tail(a), trigger, conn)

\* __send_data on st = [acc, size, pq, round]: every device's data is published
\* and its entry reset (line 513); trigger is 0 for the send of line 317
SendData(st, trigger, conn) ==
    LET toks == AllTokens(st.acc, trigger, conn)
    IN [st EXCEPT !.acc = [i \in DOMAIN st.acc |-> AccEntry(st.acc[i].device)],
                  !.pq = st.pq \o toks,
                  !.round = st.round \o toks]

\* check_size: the size reached is compared, the data gathered so far is sent,
\* and the counter restarts from 0
CheckSize(st, trigger, conn) ==
    IF st.size >= MaxPayloadSizeBytes
        THEN [SendData(st, trigger, conn) EXCEPT !.size = 0]
        ELSE st

(***************************************************************************)
(* Folding one event into the accumulator (lines 283-309).                 *)
(***************************************************************************)
\* the items the loops of lines 288 and 300 (or the single objects of lines
\* 294 and 306) walk through, each with its estimated size
TelemetrySteps(ev) ==
    [i \in DOMAIN ev.telemetry.items |->
        [sec |-> "telemetry", sz |-> EntrySize(ev.telemetry.items[i]),
         item |-> ev.telemetry.items[i]]]

AttributeSteps(ev) ==
    [i \in DOMAIN ev.attributes.items |->
        [sec |-> "attributes", sz |-> StrSize(ev.attributes.items[i]),
         item |-> ev.attributes.items[i]]]

\* size += ...; size = self.check_size(size, ...); append / update
ApplyStep(st, step, dev, id, conn) ==
    LET s1 == [st EXCEPT !.size = st.size + step.sz]
        s2 == CheckSize(s1, step.sz, conn)
        i == AccIndex(s2.acc, dev)
    IN IF step.sec = "telemetry"
          THEN [s2 EXCEPT !.acc[i].telemetry =
                    Append(@, [ts |-> step.item.ts, values |-> step.item.values, ev |-> id])]
          ELSE [s2 EXCEPT !.acc[i].attributes = MapMerge(@, step.item),
                          !.acc[i].attr_evs = @ \cup {id}]

RECURSIVE ApplySteps(_, _, _, _, _)
ApplySteps(st, steps, dev, id, conn) ==
    IF steps = <<>> THEN st
    ELSE ApplySteps(ApplyStep(st, Head(steps), dev, id, conn), Tail(steps), dev, id, conn)

FoldEvent(st, ev, conn) ==
    LET s0 == IF AccHas(st.acc, ev.deviceName) THEN st
              ELSE [st EXCEPT !.acc = Append(@, AccEntry(ev.deviceName))]
    IN ApplySteps(s0, TelemetrySteps(ev) \o AttributeSteps(ev), ev.deviceName, ev.id, conn)

(***************************************************************************)
(* The uplink worker, __read_data_from_storage (lines 259-356).  One       *)
(* action per stretch of code between two reads of state that another      *)
(* thread writes (is_connected(), __rpc_reply_sent).                       *)
(***************************************************************************)
UplinkLocal == [acc |-> acc, size |-> size, pq |-> published_events, round |-> h_round]

\* lines 263-265: while not self.stopped: if self.tb_client.is_connected()
\* (disconnected: sleep(.1) and the same test again)
U_Top ==
    /\ upc = "top" /\ ~stopped /\ connected
    /\ upc' = "checkout"
    /\ UNCHANGED <<events, ei, acc, size, published_events, success, event,
                   h_acked, h_retired, h_round, h_drain_failed, h_lost>>
    /\ UNCHANGED <<cloudVars, storageVars, serviceVars>>

\* lines 266-272 and 351: size of what the accumulator holds, checkout
U_Checkout ==
    /\ upc = "checkout"
    /\ size' = AccSize(acc)
    /\ event_pack' = PackAfterGet(event_pack, storage_q)
    /\ storage_q' = QueueAfterGet(event_pack, storage_q)
    /\ events' = event_pack'
    /\ ei' = 1
    /\ h_round' = <<>>
    /\ h_lost' = FALSE
    /\ upc' = IF events' = <<>> THEN "top" ELSE "fold"
    /\ UNCHANGED <<acc, published_events, success, event, h_acked, h_retired, h_drain_failed>>
    /\ UNCHANGED <<cloudVars, serviceVars>>

\* lines 273-309 for one event of the pack
U_Fold ==
    /\ upc = "fold"
    /\ LET st == FoldEvent(UplinkLocal, events[ei], connected)
       IN /\ Len(st.pq) <= MaxPublished
          /\ acc' = st.acc
          /\ size' = st.size
          /\ published_events' = st.pq
          /\ h_round' = st.round
    /\ ei' = ei + 1
    /\ upc' = IF ei = Len(events) THEN "send_check" ELSE "fold"
    /\ UNCHANGED <<events, success, event, h_acked, h_retired, h_drain_failed, h_lost>>
    /\ UNCHANGED <<cloudVars, storageVars, serviceVars>>

\* lines 311-313: if not self.tb_client.is_connected(): continue
U_SendCheck ==
    /\ upc = "send_check"
    /\ upc' = IF acc = <<>> THEN "drain_start" ELSE IF connected THEN "send_wait" ELSE "top"
    /\ UNCHANGED <<events, ei, acc, size, published_events, success, event,
                   h_acked, h_retired, h_round, h_drain_failed, h_lost>>
    /\ UNCHANGED <<cloudVars, storageVars, serviceVars>>

\* lines 314-315: while self.__rpc_reply_sent: sleep(.01)
U_SendWait ==
    /\ upc = "send_wait" /\ ~rpc_reply_sent
    /\ upc' = "send"
    /\ UNCHANGED <<events, ei, acc, size, published_events, success, event,
                   h_acked, h_retired, h_round, h_drain_failed, h_lost>>
    /\ UNCHANGED <<cloudVars, storageVars, serviceVars>>

\* lines 317-318: self.__send_data(devices_data_in_event_pack)
U_Send ==
    /\ upc = "send"
    /\ LET st == SendData(UplinkLocal, 0, connected)
       IN /\ Len(st.pq) <= MaxPublished
          /\ acc' = st.acc
          /\ published_events' = st.pq
          /\ h_round' = st.round
    /\ upc' = "drain_start"
    /\ UNCHANGED <<events, ei, size, success, event, h_acked, h_retired, h_drain_failed, h_lost>>
    /\ UNCHANGED <<cloudVars, storageVars, serviceVars>>

\* lines 320-322 and 348-349
U_DrainStart ==
    /\ upc = "drain_start"
    /\ IF connected
          THEN success' = TRUE /\ h_drain_failed' = FALSE /\ upc' = "drain_loop"
          ELSE UNCHANGED <<success, h_drain_failed>> /\ upc' = "top"
    /\ UNCHANGED <<events, ei, acc, size, published_events, event, h_acked, h_retired,
                   h_round, h_lost>>
    /\ UNCHANGED <<cloudVars, storageVars, serviceVars>>

\* lines 323-330: the loop test, the tests that abandon the drain, the token
U_DrainLoop ==
    /\ upc = "drain_loop"
    /\ IF published_events = <<>>
          THEN upc' = "commit" /\ UNCHANGED <<success, event, published_events>>
          ELSE IF ~connected \/ rpc_reply_sent
                  THEN /\ success' = FALSE
                       /\ upc' = "commit"
                       /\ UNCHANGED <<event, published_events>>
                  ELSE /\ event' = Head(published_events)
                       /\ published_events' = Tail(published_events)
                       /\ upc' = "drain_get"
                       /\ UNCHANGED success
    /\ UNCHANGED <<events, ei, acc, size, h_acked, h_retired, h_round, h_drain_failed, h_lost>>
    /\ UNCHANGED <<cloudVars, storageVars, serviceVars>>

\* what event.get() can report: a publish handed to a disconnected transport
\* is never acknowledged
TokenOutcomes(tok) == IF tok.sent_connected THEN {TRUE, FALSE} ELSE {FALSE}

\* lines 331-343: with QoS 1 the token's result becomes success, with QoS 0
\* success is True; disconnected, the loop is left with success as it is
U_DrainGet ==
    /\ upc = "drain_get"
    /\ IF connected
          THEN /\ \E ok \in (IF qos = 1 THEN TokenOutcomes(event) ELSE {TRUE}) :
                    /\ success' = ok
                    /\ h_acked' = IF ok THEN h_acked \cup event.evs ELSE h_acked
                    /\ h_drain_failed' = (h_drain_failed \/ ~ok)
               /\ upc' = "drain_loop"
          ELSE /\ upc' = "commit"
               /\ UNCHANGED <<success, h_acked, h_drain_failed>>
    /\ UNCHANGED <<events, ei, acc, size, published_events, event, h_retired, h_round, h_lost>>
    /\ UNCHANGED <<cloudVars, storageVars, serviceVars>>

\* lines 344-347: if success: event_pack_processing_done(), a new accumulator
U_Commit ==
    /\ upc = "commit"
    /\ IF success
          THEN /\ event_pack' = <<>>
               /\ h_retired' = h_retired \cup {event_pack[i].id : i \in DOMAIN event_pack}
               /\ acc' = <<>>
          ELSE UNCHANGED <<event_pack, h_retired, acc>>
    /\ upc' = "top"
    /\ UNCHANGED <<events, ei, size, published_events, success, event, h_acked, h_round,
                   h_drain_failed, h_lost>>
    /\ UNCHANGED <<cloudVars, storage_q, serviceVars>>

Uplink ==
    \/ U_Top \/ U_Checkout \/ U_Fold \/ U_SendCheck \/ U_SendWait \/ U_Send
    \/ U_DrainStart \/ U_DrainLoop \/ U_DrainGet \/ U_Commit

(***************************************************************************)
(* The cloud connection and other threads' RPC replies.                    *)
(***************************************************************************)
\* the uplink worker holds a pack it checked out and has not finished draining
InFlight == upc \in {"fold", "send_check", "send_wait", "send", "drain_start",
                     "drain_loop", "drain_get"}

\* the transport loses the connection
Disconnect ==
    /\ connected
    /\ connected' = FALSE
    /\ h_lost' = (h_lost \/ InFlight)
    /\ UNCHANGED <<qos, stopped, rpc_reply_sent, repliers>>
    /\ UNCHANGED <<upc, events, ei, acc, size, published_events, success, event,
                   h_acked, h_retired, h_round, h_drain_failed>>
    /\ UNCHANGED <<storageVars, serviceVars>>

\* the transport connects again (tb_client.stop() of line 231 and 374 ends that)
Connect ==
    /\ ~connected /\ ~stopped
    /\ connected' = TRUE
    /\ UNCHANGED <<qos, stopped, rpc_reply_sent, repliers>>
    /\ UNCHANGED <<uplinkVars, storageVars, serviceVars>>

\* __stop_gateway (lines 366-374), called for an interrupt (line 225): stopped
\* is set, the storage is stopped and the transport disconnected; the two
\* workers are not joined
StopGateway ==
    /\ ~stopped
    /\ stopped' = TRUE
    /\ connected' = FALSE
    /\ h_lost' = (h_lost \/ (connected /\ InFlight))
    /\ UNCHANGED <<qos, rpc_reply_sent, repliers>>
    /\ UNCHANGED <<upc, events, ei, acc, size, published_events, success, event,
                   h_acked, h_retired, h_round, h_drain_failed>>
    /\ UNCHANGED <<storageVars, serviceVars>>

\* send_rpc_reply, line 607: a thread starts sending a reply
ReplyBegin ==
    /\ repliers < MaxRepliers
    /\ repliers' = repliers + 1
    /\ rpc_reply_sent' = TRUE
    /\ UNCHANGED <<connected, qos, stopped>>
    /\ UNCHANGED <<uplinkVars, storageVars, serviceVars>>

\* send_rpc_reply, lines 608-623: the reply is published, the flag cleared
ReplyEnd ==
    /\ repliers > 0
    /\ repliers' = repliers - 1
    /\ rpc_reply_sent' = FALSE
    /\ UNCHANGED <<connected, qos, stopped>>
    /\ UNCHANGED <<uplinkVars, storageVars, serviceVars>>

(***************************************************************************)
(* The device registry (lines 641-700).  A registry state is               *)
(* [cd, sd, file, connects, disconnects]: __connected_devices,             *)
(* _saved_devices, connected_devices.json, and the calls made to the       *)
(* cloud.  A device's record is [connector, device_type]; an entry loaded  *)
(* from the file has no device_type key.                                   *)
(***************************************************************************)
\* the value None of a "connector" entry
NoConnector == "None"

Registry == [cd |-> connected_devices, sd |-> saved_devices, file |-> devices_file,
             connects |-> h_connect_calls, disconnects |-> h_disconnect_calls]

\* _load_persistent_devices (lines 663-688): only the entries whose connector
\* name is a key of available_connectors get into __connected_devices
LoadPersistentDevices(file, cd, available_connectors) ==
    LET bound == {d \in DOMAIN file : file[d] \in available_connectors}
    IN [d \in DOMAIN cd \cup bound |->
            IF d \in bound THEN [connector |-> file[d], device_type |-> NoKey] ELSE cd[d]]

\* __save_persistent_devices (lines 690-700): name -> connector.get_name()
SavePersistentDevices(cd) ==
    [d \in {x \in DOMAIN cd : cd[x].connector # NoConnector} |-> cd[d].connector]

\* add_device (lines 641-647); device_type NoKey is the default None
AddDevice(reg, name, connector, device_type) ==
    IF name \in DOMAIN reg.sd THEN reg
    ELSE LET dt == IF device_type # NoKey THEN device_type ELSE "default"
             rec == [connector |-> connector, device_type |-> dt]
             cd1 == MapPut(reg.cd, name, rec)
         IN [reg EXCEPT !.cd = cd1,
                        !.sd = MapPut(reg.sd, name, rec),
                        !.file = SavePersistentDevices(cd1),
                        !.connects[name] = @ + 1]

\* update_device (lines 649-652) for event "connector": the file is written
\* before the entry is changed; an unknown name raises KeyError
UpdateDevice(reg, name, connector) ==
    IF name \notin DOMAIN reg.cd THEN reg
    ELSE [reg EXCEPT !.file = IF reg.cd[name].connector # connector
                                  THEN SavePersistentDevices(reg.cd) ELSE @,
                     !.cd[name].connector = connector]

\* del_device (lines 654-658): each del raises KeyError for a missing key, and
\* the statements after it are not run
DelDevice(reg, name) ==
    IF name \notin DOMAIN reg.cd THEN reg
    ELSE IF name \notin DOMAIN reg.sd THEN [reg EXCEPT !.cd = MapDel(reg.cd, name)]
    ELSE LET cd1 == MapDel(reg.cd, name)
         IN [reg EXCEPT !.cd = cd1,
                        !.sd = MapDel(reg.sd, name),
                        !.disconnects[name] = @ + 1,
                        !.file = SavePersistentDevices(cd1)]

\* get_devices (lines 660-661)
GetDevices == connected_devices

SetRegistry(reg) ==
    /\ connected_devices' = reg.cd
    /\ saved_devices' = reg.sd
    /\ devices_file' = reg.file
    /\ h_connect_calls' = reg.connects
    /\ h_disconnect_calls' = reg.disconnects

\* calls connectors make from their own threads
MaxApiCalls == 2

DeviceTypes == {"sensor"}

AddDeviceCall ==
    /\ h_api_calls < MaxApiCalls
    /\ \E d \in Devices, c \in Connectors, t \in DeviceTypes \cup {NoKey} :
          /\ SetRegistry(AddDevice(Registry, d, c, t))
          /\ h_expected' = h_expected \cup {d}
    /\ h_api_calls' = h_api_calls + 1
    /\ UNCHANGED <<h_file0, add_threads>>
    /\ UNCHANGED <<cloudVars, storageVars, uplinkVars, ingVars, rpcVars, mainVars>>

UpdateDeviceCall ==
    /\ h_api_calls < MaxApiCalls
    /\ \E d \in Devices, c \in Connectors :
          SetRegistry(UpdateDevice(Registry, d, c))
    /\ h_api_calls' = h_api_calls + 1
    /\ UNCHANGED <<h_file0, h_expected, add_threads>>
    /\ UNCHANGED <<cloudVars, storageVars, uplinkVars, ingVars, rpcVars, mainVars>>

DelDeviceCall ==
    /\ h_api_calls < MaxApiCalls
    /\ \E d \in Devices :
          /\ SetRegistry(DelDevice(Registry, d))
          /\ h_expected' = h_expected \ {d}
    /\ h_api_calls' = h_api_calls + 1
    /\ UNCHANGED <<h_file0, add_threads>>
    /\ UNCHANGED <<cloudVars, storageVars, uplinkVars, ingVars, rpcVars, mainVars>>

(***************************************************************************)
(* add_device (lines 641-647) entered by several threads: each statement   *)
(* is a step of its own, and __save_persistent_devices (lines 690-700)     *)
(* builds data_to_save from the registry before it writes the file.  No    *)
(* statement of the source acquires self._lock (line 72).                  *)
(***************************************************************************)
Threads == {"t1", "t2"}

IdleThread == [pc |-> "idle", device_name |-> NoKey, connector |-> NoConnector,
               data_to_save |-> EmptyMap]

\* the steps of a thread inside add_device leave the rest of the gateway alone
AddDeviceFrame ==
    /\ UNCHANGED <<h_file0, h_api_calls>>
    /\ UNCHANGED <<cloudVars, storageVars, uplinkVars, ingVars, rpcVars, mainVars>>

\* line 642: the thread enters add_device and tests _saved_devices
AddDeviceEnter(t) ==
    /\ add_threads[t].pc = "idle"
    /\ \E d \in Devices, c \in Connectors :
          add_threads' = [add_threads EXCEPT ![t] =
                             [@ EXCEPT !.pc = IF d \in DOMAIN saved_devices THEN "done"
                                                                            ELSE "store",
                                       !.device_name = d, !.connector = c]]
    /\ UNCHANGED <<connected_devices, saved_devices, devices_file, h_expected,
                   h_connect_calls, h_disconnect_calls>>
    /\ AddDeviceFrame

\* lines 643-645
AddDeviceStore(t) ==
    /\ add_threads[t].pc = "store"
    /\ LET rec == [connector |-> add_threads[t].connector, device_type |-> "default"]
       IN /\ connected_devices' = MapPut(connected_devices, add_threads[t].device_name, rec)
          /\ saved_devices' = MapPut(saved_devices, add_threads[t].device_name, rec)
    /\ h_expected' = h_expected \cup {add_threads[t].device_name}
    /\ add_threads' = [add_threads EXCEPT ![t].pc = "save"]
    /\ UNCHANGED <<devices_file, h_connect_calls, h_disconnect_calls>>
    /\ AddDeviceFrame

\* lines 693-696: data_to_save is built from __connected_devices
SaveBuild(t) ==
    /\ add_threads[t].pc = "save"
    /\ add_threads' = [add_threads EXCEPT ![t] =
                          [@ EXCEPT !.pc = "write",
                                    !.data_to_save = SavePersistentDevices(connected_devices)]]
    /\ UNCHANGED <<connected_devices, saved_devices, devices_file, h_expected,
                   h_connect_calls, h_disconnect_calls>>
    /\ AddDeviceFrame

\* line 697: config_file.write(dumps(data_to_save))
SaveWrite(t) ==
    /\ add_threads[t].pc = "write"
    /\ devices_file' = add_threads[t].data_to_save
    /\ add_threads' = [add_threads EXCEPT ![t].pc = "announce"]
    /\ UNCHANGED <<connected_devices, saved_devices, h_expected,
                   h_connect_calls, h_disconnect_calls>>
    /\ AddDeviceFrame

\* line 647: gw_connect_device
AddDeviceAnnounce(t) ==
    /\ add_threads[t].pc = "announce"
    /\ h_connect_calls' = [h_connect_calls EXCEPT ![add_threads[t].device_name] = @ + 1]
    /\ add_threads' = [add_threads EXCEPT ![t].pc = "done"]
    /\ UNCHANGED <<connected_devices, saved_devices, devices_file, h_expected,
                   h_disconnect_calls>>
    /\ AddDeviceFrame

\* the files connected_devices.json can hold at startup: every device maps to
\* a connector that is loaded, or to one that is not
StartupFiles ==
    UNION { [ds -> Connectors \cup {OrphanConnector}] : ds \in SUBSET Devices }

\* lines 136-141: the registry after the constructor's two loads, the first
\* before _load_connectors, the second after
InitRegistry(files) ==
    /\ h_file0 \in files
    /\ devices_file = h_file0
    /\ connected_devices =
          LoadPersistentDevices(h_file0, LoadPersistentDevices(h_file0, EmptyMap, {}), Connectors)
    /\ saved_devices = EmptyMap
    /\ h_expected = DOMAIN h_file0
    /\ h_connect_calls = [d \in Devices |-> 0]
    /\ h_disconnect_calls = [d \in Devices |-> 0]
    /\ h_api_calls = 0
    /\ add_threads = [t \in Threads |-> IdleThread]


(***************************************************************************)
(* The ingress worker, __send_to_storage (lines 453-492), and              *)
(* send_to_storage (lines 450-451).  An item of the queue is               *)
(* [connector_name, data]; data has deviceName, deviceType (NoKey when the *)
(* key is missing), telemetry and attributes.  The telemetry a connector   *)
(* hands over is absent, one dict ("map"), or a list of entries; an entry  *)
(* with ts = 0 is a bare map of values without a "ts" key.                 *)
(***************************************************************************)
\* send_to_storage calls made by connectors
MaxIngest == 2

NoTelemetry == [shape |-> "absent", items |-> <<>>]

Data(dev, dtype, tel, attrs) ==
    [deviceName |-> dev, deviceType |-> dtype, telemetry |-> tel, attributes |-> attrs]

Item(c, data) == [connector_name |-> c, data |-> data]

TelemetryList(items) == [shape |-> "list", items |-> items]

OneDict(m) == [shape |-> "map", items |-> <<m>>]

\* what connectors hand to send_to_storage
IngestItems ==
    { Item("c1", Data("d1", "sensor", TelemetryList(<<Entry(1, Map1("k1", 1))>>), NoAttributes)),
      Item("c1", Data("d1", "sensor",
                      TelemetryList(<<Entry(0, Map1("k1", 1)), Entry(0, Map2(2, 2))>>),
                      OneDict(Map1("k2", 2)))),
      Item("c2", Data("d2", "sensor",
                      TelemetryList(<<Entry(0, Map1("k1", 1)), Entry(2, Map1("k2", 2))>>),
                      NoAttributes)),
      Item("c2", Data("d2", NoKey, TelemetryList(<<Entry(1, Map1("k1", 1))>>), NoAttributes)),
      Item("c1", Data("d1", "sensor", NoTelemetry, OneDict(Map1("k1", 1)))),
      Item("c1", Data("d2", "sensor", OneDict(Map1("k1", 1)), NoAttributes)),
      Item("c1", Data(NoKey, "sensor", TelemetryList(<<Entry(1, Map1("k1", 1))>>), NoAttributes)),
      Item(OrphanConnector, Data("d2", "sensor", TelemetryList(<<Entry(1, Map1("k1", 1))>>),
                                 NoAttributes)),
      Item(GatewayName, Data(GatewayName, NoKey, TelemetryList(<<Entry(0, Map1("k1", 1))>>),
                             OneDict(Map1("k2", 2)))) }

\* TBUtility.validate_converted_data: deviceName is present and so is at
\* least one payload section
ValidateConvertedData(data) ==
    /\ data.deviceName # NoKey
    /\ (data.telemetry.shape # "absent" \/ data.attributes.shape # "absent")

HasTs(e) == e.ts # 0

HasNoTs(e) == e.ts = 0

\* a merge of the bare entries in which the earlier value of a key is kept
RECURSIVE MergeBareFirstWins(_, _)
MergeBareFirstWins(telemetry, items) ==
    IF items = <<>> THEN telemetry
    ELSE MergeBareFirstWins(MapMerge(Head(items).values, telemetry), Tail(items))

\* lines 476-477 over the bare entries: telemetry = {**telemetry, **item}
RECURSIVE MergeBare(_, _)
MergeBare(telemetry, items) ==
    IF items = <<>> THEN telemetry
    ELSE MergeBare(MapMerge(telemetry, Head(items).values), Tail(items))

Raised(what) == [raised |-> what, telemetry |-> NoTelemetry]

\* lines 473-483 at time t: the telemetry stored, or the exception raised
\* (data["telemetry"] of a missing key, item.get of a key of a dict)
NormaliseTelemetry(tel, t) ==
    IF tel.shape = "absent" THEN Raised("KeyError")
    ELSE IF tel.shape = "map"
         THEN IF tel.items[1] # EmptyMap THEN Raised("AttributeError")
              ELSE [raised |-> "none",
                    telemetry |-> [shape |-> "obj", items |-> <<Entry(t, EmptyMap)>>]]
    ELSE LET telemetry_with_ts == SelectSeq(tel.items, HasTs)
             telemetry == MergeBare(EmptyMap, SelectSeq(tel.items, HasNoTs))
         IN IF telemetry_with_ts # <<>>
               THEN [raised |-> "none",
                     telemetry |-> [shape |-> "list", items |-> telemetry_with_ts]]
               ELSE [raised |-> "none",
                     telemetry |-> [shape |-> "obj", items |-> <<Entry(t, telemetry)>>]]

\* lines 466-469
CountMessage(cim, c) ==
    IF c \notin DOMAIN cim \/ cim[c] = 0 THEN MapPut(cim, c, 0) ELSE MapPut(cim, c, cim[c] + 1)

\* line 462
AutoRegisters(item) ==
    /\ item.data.deviceName \notin DOMAIN GetDevices
    /\ connected

\* lines 463-465: the arguments of add_device that raise KeyError
AutoRegisterRaises(item) ==
    \/ item.connector_name \notin Connectors
    \/ item.data.deviceType = NoKey

NoItem == Item(NoKey, Data(NoKey, NoKey, NoTelemetry, NoAttributes))

\* send_to_storage (lines 450-451) of an item of the given set
SendToStorageFrom(items) ==
    /\ h_sent < MaxIngest
    /\ \E item \in items :
          converted_data_queue' = Append(converted_data_queue, item)
    /\ h_sent' = h_sent + 1
    /\ UNCHANGED <<ingress_alive, connector_incoming_messages, h_puts, h_last, h_own>>
    /\ UNCHANGED <<cloudVars, storageVars, uplinkVars, regVars, rpcVars, mainVars>>

\* the worker leaving its loop on an item the storage does not take
IngressLeavesOnRejection(valid, rejected) == valid /\ ~rejected

\* lines 459-461 and 486-490: the worker returns from its loop for an invalid
\* item only; a put that returns False is logged and the loop goes on
IngressGoesOn(valid, rejected) == valid

\* one pass of the loop of lines 454-492 that finds an item in the queue; an
\* exception raised on the way is caught at line 491 and ends the pass
I_Process ==
    /\ ingress_alive
    /\ converted_data_queue # <<>>
    /\ LET item == Head(converted_data_queue)
           c == item.connector_name
           own == (c = GatewayName)
           valid == own \/ ValidateConvertedData(item.data)
           auto == ~own /\ valid /\ AutoRegisters(item)
           raised == auto /\ AutoRegisterRaises(item)
           reg == IF auto /\ ~raised
                     THEN AddDevice(Registry, item.data.deviceName, c, item.data.deviceType)
                     ELSE Registry
           norm == NormaliseTelemetry(item.data.telemetry, now)
           put == valid /\ ~raised /\ norm.raised = "none"
           save_result == put /\ PutAccepted(event_pack, storage_q)
           deviceName == IF own THEN SelfDevice ELSE item.data.deviceName
           json_data == Event(h_puts + 1, deviceName, norm.telemetry.shape,
                              norm.telemetry.items, item.data.attributes)
       IN /\ converted_data_queue' = Tail(converted_data_queue)
          /\ ingress_alive' = IngressGoesOn(valid, put /\ ~save_result)
          /\ SetRegistry(reg)
          /\ h_expected' = IF auto /\ ~raised THEN h_expected \cup {item.data.deviceName}
                                              ELSE h_expected
          /\ connector_incoming_messages' =
                IF ~own /\ valid /\ ~raised
                   THEN CountMessage(connector_incoming_messages, c)
                   ELSE connector_incoming_messages
          /\ storage_q' = IF save_result THEN Append(storage_q, json_data) ELSE storage_q
          /\ h_puts' = IF put THEN h_puts + 1 ELSE h_puts
          /\ h_own' = IF own /\ save_result THEN h_own \cup {h_puts + 1} ELSE h_own
          /\ h_last' = [item |-> item,
                        outcome |-> IF ~valid THEN "invalid"
                                    ELSE IF ~put THEN "raised"
                                    ELSE IF save_result THEN "stored" ELSE "rejected"]
    /\ UNCHANGED <<h_file0, h_api_calls, add_threads, h_sent, event_pack>>
    /\ UNCHANGED <<cloudVars, uplinkVars, rpcVars, mainVars>>

\* line 64, lines 105-107
InitIngress ==
    /\ converted_data_queue = <<>>
    /\ ingress_alive = TRUE
    /\ connector_incoming_messages = EmptyMap
    /\ h_sent = 0
    /\ h_puts = 0
    /\ h_last = [item |-> NoItem, outcome |-> "none"]
    /\ h_own = {}

SendToStorage == SendToStorageFrom(IngestItems)

\* the items of well-behaved connectors and of the gateway itself
WellFormedItems ==
    {item \in IngestItems :
        /\ item.connector_name \in Connectors \cup {GatewayName}
        /\ item.data.deviceType # NoKey \/ item.connector_name = GatewayName
        /\ item.data.deviceName # NoKey
        /\ item.data.telemetry.shape = "list"}

SendWellFormed == SendToStorageFrom(WellFormedItems)

(***************************************************************************)
(* RPC requests awaiting the reply of a device (lines 587-602).  A request *)
(* is [id, device, timeout]: content["data"]["id"], content["device"] and  *)
(* the time in ticks at which the request expires.                         *)
(***************************************************************************)
\* register_rpc_request_timeout calls
MaxRpc == 2
\* the clock stops at
MaxTime == 3

RpcTopics == {"t1", "t2"}

RpcIds == 1..MaxRpc
\* _rpc_request_handler calls
MaxRequests == 2

RequestIds == 1..MaxRequests

\* send_rpc_reply (lines 604-625) for a request of a device: the reply is
\* recorded and the flag of line 607 is cleared at line 623
SendRpcReply(replies, req_id, kind) == [replies EXCEPT ![req_id] = Append(@, kind)]

\* register_rpc_request_timeout (lines 596-598)
RegisterRpcRequestTimeout ==
    /\ h_registered < MaxRpc
    /\ \E topic \in RpcTopics, device \in Devices, timeout \in (now + 1)..MaxTime :
          rpc_register_queue' =
             Append(rpc_register_queue,
                    [topic |-> topic,
                     data |-> [id |-> h_registered + 1, device |-> device, timeout |-> timeout]])
    /\ h_registered' = h_registered + 1
    /\ UNCHANGED <<rpc_requests_in_progress, h_replies, h_cancelled>>
    /\ UNCHANGED <<remote_shell, h_requests, h_gw_replies, h_handled, h_reply_calls>>
    /\ UNCHANGED <<cloudVars, storageVars, uplinkVars, regVars, ingVars, mainVars>>

\* is_rpc_in_progress (lines 587-588)
IsRpcInProgress(topic) == topic \in DOMAIN rpc_requests_in_progress

\* rpc_with_reply_processing (lines 590-594), called by a connector with the
\* answer of the device, once per request
RpcWithReplyProcessing ==
    /\ \E topic \in RpcTopics :
          /\ IsRpcInProgress(topic)
          /\ LET req_id == rpc_requests_in_progress[topic].id
             IN /\ \A i \in DOMAIN h_replies[req_id] : h_replies[req_id][i] # "content"
                /\ h_replies' = SendRpcReply(h_replies, req_id, "content")
    /\ rpc_reply_sent' = FALSE
    /\ UNCHANGED <<connected, qos, stopped, repliers>>
    /\ UNCHANGED <<rpc_register_queue, rpc_requests_in_progress, h_registered, h_cancelled>>
    /\ UNCHANGED <<remote_shell, h_requests, h_gw_replies, h_handled, h_reply_calls>>
    /\ UNCHANGED <<storageVars, uplinkVars, regVars, ingVars, mainVars>>

\* lines 69-70, and lines 121-125 for the remote shell the configuration asks for
InitRpc(shells) ==
    /\ rpc_register_queue = <<>>
    /\ rpc_requests_in_progress = EmptyMap
    /\ h_registered = 0
    /\ h_replies = [i \in RpcIds |-> <<>>]
    /\ h_cancelled = [i \in RpcIds |-> 0]
    /\ remote_shell \in shells
    /\ h_requests = 0
    /\ h_gw_replies = [i \in RequestIds |-> <<>>]
    /\ h_handled = [content |-> [device |-> NoKey, module |-> NoKey, method |-> NoKey, params |-> 0],
                    answers |-> [c \in Connectors |-> "None"]]
    /\ h_reply_calls = <<>>

\* send_rpc_reply calls made by connectors
MaxReplyCalls == 2

\* req_id = None
NoId == 0

ReplyIds == 1..2

\* dumps(rpc_response), lines 608-611
SuccessBody(success_sent) ==
    [kind |-> "success", value |-> IF success_sent = "True" THEN "True" ELSE "False"]

ContentBody(content) == [kind |-> "content", value |-> content]

GwSendRpcReply(device, req_id, body) ==
    <<[channel |-> "gw", device |-> device, id |-> req_id, body |-> body]>>

ClientSendRpcReply(req_id, body) ==
    <<[channel |-> "self", device |-> NoKey, id |-> req_id, body |-> body]>>

\* lines 612-622: the publishes a call of send_rpc_reply makes; None is NoKey,
\* or NoId for req_id
RpcReplyPublishes(device, req_id, content, success_sent) ==
    IF device # NoKey /\ success_sent # NoKey
       THEN GwSendRpcReply(device, req_id, SuccessBody(success_sent))
    ELSE IF device # NoKey /\ req_id # NoId /\ content # NoKey
       THEN GwSendRpcReply(device, req_id, ContentBody(content))
    ELSE IF device = NoKey /\ success_sent # NoKey
       THEN ClientSendRpcReply(req_id, SuccessBody(success_sent))
    ELSE IF device = NoKey /\ content # NoKey
       THEN ClientSendRpcReply(req_id, ContentBody(content))
    ELSE <<>>

\* send_rpc_reply (lines 604-625) called by a connector; the publish of the
\* transport returns or raises, and an exception skips line 623
SendRpcReplyCall ==
    /\ Len(h_reply_calls) < MaxReplyCalls
    /\ \E device \in Devices \cup {NoKey}, req_id \in ReplyIds \cup {NoId},
          content \in {NoKey, "r1"}, success_sent \in {NoKey, "True", "False"},
          raises \in BOOLEAN :
          LET publishes == RpcReplyPublishes(device, req_id, content, success_sent)
              raised == raises /\ publishes # <<>>
          IN /\ h_reply_calls' =
                   Append(h_reply_calls,
                          [device |-> device, req_id |-> req_id, content |-> content,
                           success_sent |-> success_sent, raised |-> raised,
                           published |-> IF raised THEN <<>> ELSE publishes])
             /\ rpc_reply_sent' = raised
    /\ UNCHANGED <<connected, qos, stopped, repliers>>
    /\ UNCHANGED <<rpc_register_queue, rpc_requests_in_progress, h_registered, h_replies,
                   h_cancelled, remote_shell, h_requests, h_gw_replies, h_handled>>
    /\ UNCHANGED <<storageVars, uplinkVars, regVars, ingVars, mainVars>>

(***************************************************************************)
(* The main loop (lines 151-222): one iteration is one step.               *)
(***************************************************************************)
\* lines 158-160: add_device for every device of _saved_devices
RECURSIVE Reannounce(_, _)
Reannounce(reg, names) ==
    IF names = {} THEN reg
    ELSE LET device == CHOOSE d \in names : TRUE
         IN Reannounce(AddDevice(reg, device, reg.sd[device].connector,
                                 reg.sd[device].device_type),
                       names \ {device})

\* lines 154-163: the connection transitions
ConnectionTransitions ==
    IF ~connected /\ subscribed
       THEN /\ subscribed' = FALSE
            /\ UNCHANGED <<connected_devices, saved_devices, devices_file,
                           h_connect_calls, h_disconnect_calls>>
    ELSE IF connected /\ ~subscribed
       THEN /\ SetRegistry(Reannounce(Registry, DOMAIN saved_devices))
            /\ subscribed' = TRUE
    ELSE UNCHANGED <<subscribed, connected_devices, saved_devices, devices_file,
                     h_connect_calls, h_disconnect_calls>>

\* the requests in progress that have expired at cur_time (line 181)
Expired(cur_time) ==
    {topic \in DOMAIN rpc_requests_in_progress :
        cur_time >= rpc_requests_in_progress[topic].timeout}

ExpiredIds(cur_time) == {rpc_requests_in_progress[topic].id : topic \in Expired(cur_time)}

\* lines 177-192: expired requests are cancelled and answered with a failure,
\* then one registered request moves from the queue to the requests in progress
RpcReconciliation(cur_time) ==
    IF (rpc_requests_in_progress # EmptyMap \/ rpc_register_queue # <<>>) /\ connected
       THEN LET kept == [topic \in DOMAIN rpc_requests_in_progress \ Expired(cur_time) |->
                            rpc_requests_in_progress[topic]]
            IN /\ h_cancelled' = [i \in RpcIds |->
                                    IF i \in ExpiredIds(cur_time) THEN h_cancelled[i] + 1
                                                                  ELSE h_cancelled[i]]
               /\ h_replies' = [i \in RpcIds |->
                                    IF i \in ExpiredIds(cur_time)
                                       THEN SendRpcReply(h_replies, i, "failure")[i]
                                       ELSE h_replies[i]]
               /\ rpc_reply_sent' = IF Expired(cur_time) # {} THEN FALSE ELSE rpc_reply_sent
               /\ IF rpc_register_queue # <<>>
                     THEN /\ rpc_requests_in_progress' =
                                MapPut(kept, Head(rpc_register_queue).topic,
                                       Head(rpc_register_queue).data)
                          /\ rpc_register_queue' = Tail(rpc_register_queue)
                     ELSE /\ rpc_requests_in_progress' = kept
                          /\ UNCHANGED rpc_register_queue
       ELSE UNCHANGED <<rpc_requests_in_progress, rpc_register_queue, h_cancelled,
                        h_replies, rpc_reply_sent>>

\* gateway RPC calls scheduled at the same time
MaxScheduled == 2

ScheduledIds == 1..MaxScheduled

\* lines 165-175 from index i on: n is the length the list had at line 165;
\* a call that is due is popped and invoked, and the indexes that follow it
\* shift down, so that line 166 raises IndexError once i is past the end
RECURSIVE RunScheduled(_, _, _, _, _)
RunScheduled(calls, i, n, invoked, cur_time) ==
    IF i > n THEN [calls |-> calls, invoked |-> invoked, raised |-> FALSE]
    ELSE IF i > Len(calls) THEN [calls |-> calls, invoked |-> invoked, raised |-> TRUE]
    ELSE IF cur_time > calls[i].run_at
         THEN RunScheduled(SubSeq(calls, 1, i - 1) \o SubSeq(calls, i + 1, Len(calls)),
                           i + 1, n, [invoked EXCEPT ![calls[i].id] = @ + 1], cur_time)
         ELSE RunScheduled(calls, i + 1, n, invoked, cur_time)

\* lines 151-231: an exception raised by the work of an iteration leaves the
\* while loop; line 228 stops the gateway
MainLoop ==
    /\ ~stopped
    /\ ConnectionTransitions
    /\ LET run == RunScheduled(sheduled_rpc_calls, 1, Len(sheduled_rpc_calls), h_invoked, now)
       IN /\ sheduled_rpc_calls' = run.calls
          /\ h_invoked' = run.invoked
          /\ IF run.raised
                THEN /\ stopped' = TRUE
                     /\ UNCHANGED <<rpc_requests_in_progress, rpc_register_queue, h_cancelled,
                                    h_replies, rpc_reply_sent>>
                ELSE /\ RpcReconciliation(now)
                     /\ UNCHANGED stopped
    /\ UNCHANGED <<connected, qos, repliers, now, h_registered, h_scheduled>>
    /\ UNCHANGED <<remote_shell, h_requests, h_gw_replies, h_handled, h_reply_calls>>
    /\ UNCHANGED <<h_file0, h_expected, h_api_calls, add_threads>>
    /\ UNCHANGED <<storageVars, uplinkVars, ingVars>>

\* lines 151-231, an iteration in which the cancel callback of the first
\* expired request raises at line 182: nothing in the loop catches it, the
\* while loop is left and line 228 stops the gateway
MainLoopCancelRaises ==
    /\ ~stopped
    /\ ConnectionTransitions
    /\ LET run == RunScheduled(sheduled_rpc_calls, 1, Len(sheduled_rpc_calls), h_invoked, now)
       IN /\ ~run.raised
          /\ sheduled_rpc_calls' = run.calls
          /\ h_invoked' = run.invoked
    /\ connected
    /\ Expired(now) # {}
    /\ stopped' = TRUE
    /\ UNCHANGED <<rpc_requests_in_progress, rpc_register_queue, h_cancelled,
                   h_replies, rpc_reply_sent>>
    /\ UNCHANGED <<connected, qos, repliers, now, h_registered, h_scheduled>>
    /\ UNCHANGED <<remote_shell, h_requests, h_gw_replies, h_handled, h_reply_calls>>
    /\ UNCHANGED <<h_file0, h_expected, h_api_calls, add_threads>>
    /\ UNCHANGED <<storageVars, uplinkVars, ingVars>>

\* time() advances
Tick ==
    /\ now < MaxTime
    /\ now' = now + 1
    /\ UNCHANGED <<subscribed, sheduled_rpc_calls, h_scheduled, h_invoked>>
    /\ UNCHANGED <<cloudVars, storageVars, uplinkVars, regVars, ingVars, rpcVars>>

\* line 94
InitMain ==
    /\ now = 1
    /\ subscribed = TRUE
    /\ sheduled_rpc_calls = <<>>
    /\ h_scheduled = 0
    /\ h_invoked = [i \in ScheduledIds |-> 0]

(***************************************************************************)
(* _rpc_request_handler (lines 517-555) and __rpc_gateway_processing       *)
(* (lines 557-585) for a request without a device.  content is             *)
(* [device, module, method, params]: module is the part of                 *)
(* content["method"] before the first "_", method the part after it.  A    *)
(* result is a string; "None" is the result None.                          *)
(***************************************************************************)
\* the greatest delay, in ticks, a restart or reboot is asked with
MaxDelay == 1

\* _connector_type of the loaded connectors, and the keys of connectors_configs
ConnectorType(c) == "mqtt"

\* the order in which line 532 walks through available_connectors
ConnectorOrder == <<"c1", "c2">>

\* what server_side_rpc_handler of a connector returns
ConnectorResults == {"None", "r1", "r2"}

\* keys of __remote_shell.shell_commands
ShellCommands == {"getTermInfo"}

\* keys of __rpc_sheduled_methods_functions (lines 128-131)
ScheduledMethods == {"restart", "reboot"}

RpcContents ==
    [device : {NoKey}, module : {"mqtt"}, method : {"get"}, params : {0}]
    \cup [device : {NoKey}, module : {"gateway"}, method : {"ping", "nosuch"}, params : {0}]
    \cup [device : {NoKey}, module : {"gateway"}, method : ScheduledMethods, params : 0..MaxDelay]
    \cup [device : {NoKey}, module : {"foo"}, method : {"bar"}, params : {0}]
    \cup [device : {NoKey}, module : {"getTermInfo"}, method : {""}, params : {0}]
    \cup [device : {"d1"}, module : {"mqtt"}, method : {"get"}, params : {0}]

\* lines 532-536: every connector of the type handles the request, and
\* result is bound anew each time
RECURSIVE Broadcast(_, _, _, _)
Broadcast(order, module, answers, result) ==
    IF order = <<>> THEN result
    ELSE Broadcast(Tail(order), module, answers,
                   IF ConnectorType(Head(order)) = module THEN answers[Head(order)] ELSE result)

\* content["method"].replace("gateway_", "") (line 562)
MethodToCall(content) == IF content.module = "gateway" THEN content.method ELSE content.module

\* __rpc_gateway_processing: the result returned and whether a call is scheduled
RpcGatewayProcessing(content) ==
    LET method_to_call == MethodToCall(content)
        found == \/ method_to_call = "ping"
                 \/ remote_shell /\ method_to_call \in ShellCommands
    IN IF ~found /\ method_to_call \in ScheduledMethods
          THEN [result |-> "success", schedule |-> TRUE]
       ELSE IF ~found THEN [result |-> "404 method", schedule |-> FALSE]
       ELSE IF method_to_call = "ping" THEN [result |-> "pong", schedule |-> FALSE]
       ELSE [result |-> "shell", schedule |-> FALSE]

\* lines 523-553: the result, whether a call is scheduled, and the reply sent
\* with it; the AttributeError of line 537 when there is no remote shell is
\* answered by line 552
HandleRpc(content, answers) ==
    LET out == IF content.module = ConnectorType("c1")
                  THEN [result |-> Broadcast(ConnectorOrder, content.module, answers, "None"),
                        schedule |-> FALSE]
               ELSE IF content.module = "gateway"
                  THEN RpcGatewayProcessing(content)
               ELSE IF ~remote_shell
                  THEN [result |-> "500", schedule |-> FALSE]
               ELSE IF content.module \in ShellCommands
                  THEN RpcGatewayProcessing(content)
               ELSE [result |-> "404 connector", schedule |-> FALSE]
    IN [schedule |-> out.schedule,
        reply |-> IF out.result = "None" THEN "success false" ELSE out.result]

\* _rpc_request_handler called by the transport with a request of the cloud
RpcRequestHandler ==
    /\ h_requests < MaxRequests
    /\ \E content \in RpcContents, answers \in [Connectors -> ConnectorResults] :
          LET request_id == h_requests + 1
              out == HandleRpc(content, answers)
          IN /\ h_handled' = [content |-> content, answers |-> answers]
             /\ IF content.device # NoKey
                THEN UNCHANGED <<h_gw_replies, rpc_reply_sent, sheduled_rpc_calls, h_scheduled>>
                ELSE /\ out.schedule => h_scheduled < MaxScheduled
                     /\ h_gw_replies' = [h_gw_replies EXCEPT ![request_id] = Append(@, out.reply)]
                     /\ rpc_reply_sent' = FALSE
                     /\ IF out.schedule
                           THEN /\ sheduled_rpc_calls' =
                                      Append(sheduled_rpc_calls,
                                             [run_at |-> now + content.params,
                                              method |-> content.method,
                                              id |-> h_scheduled + 1])
                                /\ h_scheduled' = h_scheduled + 1
                           ELSE UNCHANGED <<sheduled_rpc_calls, h_scheduled>>
    /\ h_requests' = h_requests + 1
    /\ UNCHANGED <<connected, qos, stopped, repliers, remote_shell, h_reply_calls>>
    /\ UNCHANGED <<rpc_register_queue, rpc_requests_in_progress, h_registered, h_replies,
                   h_cancelled>>
    /\ UNCHANGED <<now, subscribed, h_invoked>>
    /\ UNCHANGED <<storageVars, uplinkVars, regVars, ingVars>>

(***************************************************************************)
(* The state after construction (lines 60-147).                            *)
(***************************************************************************)
\* lines 63, 87-100
InitCloud(qualities) ==
    /\ connected \in BOOLEAN
    /\ qos \in qualities
    /\ stopped = FALSE
    /\ rpc_reply_sent = FALSE
    /\ repliers = 0

InitUplinkLocal ==
    /\ upc = "top"
    /\ events = <<>>
    /\ ei = 1
    /\ acc = <<>>
    /\ size = 0
    /\ published_events = <<>>
    /\ success = TRUE
    /\ event = Token(AccEntry(NoKey), NoKey, {}, 0, 0, FALSE)
    /\ h_acked = {}
    /\ h_retired = {}
    /\ h_round = <<>>
    /\ h_drain_failed = FALSE
    /\ h_lost = FALSE

(***************************************************************************)
(* The registry specification: connectors hand items to send_to_storage    *)
(* and call add_device, update_device and del_device, the ingress worker   *)
(* processes the items, the connection comes and goes and the main loop    *)
(* observes it.                                                            *)
(***************************************************************************)
InitRegistrySpec ==
    /\ InitCloud({1})
    /\ InitUplinkLocal
    /\ storage_q = <<>> /\ event_pack = <<>>
    /\ InitRegistry(StartupFiles)
    /\ InitIngress
    /\ InitRpc({FALSE})
    /\ InitMain

NextRegistry ==
    \/ SendToStorage \/ I_Process
    \/ AddDeviceCall \/ UpdateDeviceCall \/ DelDeviceCall
    \/ MainLoop \/ Connect \/ Disconnect

SpecRegistry == InitRegistrySpec /\ [][NextRegistry]_vars

(***************************************************************************)
(* The RPC specification: connectors register requests and deliver the     *)
(* devices' answers, the main loop dispatches and expires them.            *)
(***************************************************************************)
InitRpcSpec ==
    /\ InitCloud({1})
    /\ InitUplinkLocal
    /\ storage_q = <<>> /\ event_pack = <<>>
    /\ InitRegistry({EmptyMap})
    /\ InitIngress
    /\ InitRpc({FALSE})
    /\ InitMain

NextRpc ==
    \/ RegisterRpcRequestTimeout \/ RpcWithReplyProcessing
    \/ MainLoop \/ Tick \/ Connect \/ Disconnect

SpecRpc == InitRpcSpec /\ [][NextRpc]_vars

(***************************************************************************)
(* The main-loop specification: the RPC specification with cancel          *)
(* callbacks that can raise.                                               *)
(***************************************************************************)
NextMainLoop == NextRpc \/ MainLoopCancelRaises

SpecMainLoop == InitRpcSpec /\ [][NextMainLoop]_vars

(***************************************************************************)
(* The gateway RPC specification: the cloud sends requests without a       *)
(* device, the main loop runs the calls they schedule.                     *)
(***************************************************************************)
InitGatewayRpc ==
    /\ InitCloud({1})
    /\ InitUplinkLocal
    /\ storage_q = <<>> /\ event_pack = <<>>
    /\ InitRegistry({EmptyMap})
    /\ InitIngress
    /\ InitRpc(BOOLEAN)
    /\ InitMain

NextGatewayRpc == RpcRequestHandler \/ MainLoop \/ Tick \/ Connect \/ Disconnect

SpecGatewayRpc == InitGatewayRpc /\ [][NextGatewayRpc]_vars

(***************************************************************************)
(* The uplink specification: the worker started at line 145 finds the      *)
(* events of an earlier run in the storage.                                *)
(***************************************************************************)
InitUplink ==
    /\ InitCloud({0, 1})
    /\ InitUplinkLocal
    /\ InitRegistry({EmptyMap})
    /\ InitIngress
    /\ InitRpc({FALSE})
    /\ InitMain
    /\ event_pack = <<>>
    /\ \E n \in 1..MaxStored : \E f \in [1..n -> EventBodies] :
          storage_q = [i \in 1..n |-> [f[i] EXCEPT !.id = i]]

NextUplink == Uplink \/ Disconnect \/ Connect \/ ReplyBegin \/ ReplyEnd

SpecUplink == InitUplink /\ [][NextUplink]_vars

(***************************************************************************)
(* The pipeline specification: connectors hand items to send_to_storage,   *)
(* the ingress worker stores them and the uplink worker publishes them,    *)
(* while the connection comes and goes.                                    *)
(***************************************************************************)
InitPipeline ==
    /\ InitCloud({1})
    /\ InitUplinkLocal
    /\ storage_q = <<>> /\ event_pack = <<>>
    /\ InitRegistry({EmptyMap})
    /\ InitIngress
    /\ InitRpc({FALSE})
    /\ InitMain

NextPipeline == SendWellFormed \/ I_Process \/ Uplink \/ Connect \/ Disconnect

SpecPipeline == InitPipeline /\ [][NextPipeline]_vars

(***************************************************************************)
(* The reply specification: connectors call send_rpc_reply.                *)
(***************************************************************************)
NextReply == SendRpcReplyCall

SpecReply == InitRpcSpec /\ [][NextReply]_vars

(***************************************************************************)
(* The concurrent registry specification: two threads call add_device.     *)
(***************************************************************************)
NextConcurrentAdd ==
    \E t \in Threads :
       \/ AddDeviceEnter(t) \/ AddDeviceStore(t) \/ SaveBuild(t) \/ SaveWrite(t)
       \/ AddDeviceAnnounce(t)

SpecConcurrentAdd == InitRpcSpec /\ [][NextConcurrentAdd]_vars

(***************************************************************************)
(* The shutdown specification: the pipeline of one connector's items, and  *)
(* an interrupt that stops the gateway.                                    *)
(***************************************************************************)
ShutdownItems == {item \in WellFormedItems : item.connector_name = "c1"}

SendBeforeShutdown == SendToStorageFrom(ShutdownItems)

NextShutdown ==
    SendBeforeShutdown \/ I_Process \/ Uplink \/ Connect \/ Disconnect \/ StopGateway

SpecShutdown == InitPipeline /\ [][NextShutdown]_vars

(***************************************************************************)
(* The ingress specification: connectors hand items to send_to_storage and *)
(* the ingress worker stores them in a storage that events of an earlier   *)
(* run fill in part or in full.                                            *)
(***************************************************************************)
InitIngressSpec ==
    /\ InitCloud({1})
    /\ InitUplinkLocal
    /\ InitRegistry({EmptyMap})
    /\ InitIngress
    /\ InitRpc({FALSE})
    /\ InitMain
    /\ event_pack = <<>>
    /\ \E n \in 0..MaxStored : \E body \in EventBodies :
          storage_q = [i \in 1..n |-> body]

NextIngress == SendToStorage \/ I_Process \/ Connect \/ Disconnect

SpecIngress == InitIngressSpec /\ [][NextIngress]_vars

(***************************************************************************)
(* Claims about the uplink worker.                                         *)
(***************************************************************************)
\* the uplink worker retires the pack in this step
Commits == event_pack # <<>> /\ event_pack' = <<>>

\* C1: at-least-once delivery.  Every event retired from the storage by
\* event_pack_processing_done was carried by a publish that the cloud
\* acknowledged (a token drained with TB_ERR_SUCCESS, or drained under QoS 0).
C1_RetiredOnlyAfterAck == h_retired \subseteq h_acked

\* C2: with QoS 1, event_pack_processing_done is called only if every token
\* drained for the pack since line 322 reported TB_ERR_SUCCESS.
C2_CommitOnlyIfEveryTokenSucceeded ==
    [][(Commits /\ qos = 1) => ~h_drain_failed]_vars

\* C3: if the connection was lost between the checkout of the pack and the
\* end of the token drain, event_pack_processing_done is not called for it.
C3_NoCommitAfterConnectionLoss ==
    [][Commits => ~h_lost]_vars

\* C7: no publish made by a flush of check_size carries data whose estimated
\* size exceeds maxPayloadSizeBytes by more than the size of the item that
\* triggered the flush.
C7_PublishWithinThresholdPlusTrigger ==
    \A i \in DOMAIN h_round :
        h_round[i].trigger > 0 =>
            h_round[i].size <= MaxPayloadSizeBytes + h_round[i].trigger

\* every event of the pack carries one telemetry item, and nothing else, whose
\* size is below maxPayloadSizeBytes and above half of it
HalfThresholdPack(pack) ==
    \A i \in DOMAIN pack :
        /\ Len(pack[i].telemetry.items) = 1
        /\ pack[i].attributes.items = <<>>
        /\ EntrySize(pack[i].telemetry.items[1]) < MaxPayloadSizeBytes
        /\ 2 * EntrySize(pack[i].telemetry.items[1]) > MaxPayloadSizeBytes

\* C8: pack split.  Once a pack of n events, each with one telemetry item
\* between half the threshold and the threshold, has been sent, at least n
\* publishes were made for it and each is smaller than maxPayloadSizeBytes.
C8_PackSplit ==
    (upc = "drain_start" /\ HalfThresholdPack(events)) =>
        /\ Len(h_round) >= Len(events)
        /\ \A i \in DOMAIN h_round : h_round[i].size < MaxPayloadSizeBytes


(***************************************************************************)
(* Claims about RPC requests, the registry and the ingress worker.         *)
(***************************************************************************)
\* C4: every request registered through register_rpc_request_timeout gets
\* exactly one reply; here the half that no schedule may break: no request
\* ever has more than one reply (never both the device's answer and the
\* failure reply of the timeout).
C4_AtMostOneReplyPerRequest == \A i \in RpcIds : Len(h_replies[i]) <= 1

\* the main loop handles a disconnected-to-connected transition in this step
Resubscribes == ~subscribed /\ subscribed'

\* C5: when the main loop handles a disconnected-to-connected transition,
\* gw_connect_device is called exactly once for every device of the registry
\* before the subscribed flag is set.
C5_ReannounceEveryDevice ==
    [][Resubscribes =>
          \A d \in DOMAIN connected_devices : h_connect_calls'[d] = h_connect_calls[d] + 1]_vars

\* C6: the names get_devices() returns are the entries of the file at
\* startup, plus the devices added by add_device or auto-registered by the
\* ingress worker, minus the devices deleted by del_device.
C6_RegistryIsLoadedPlusAddedMinusDeleted == DOMAIN GetDevices = h_expected

\* the ingress worker takes the item at the head of the queue in this step
IngressTakes ==
    /\ converted_data_queue # <<>>
    /\ converted_data_queue' = Tail(converted_data_queue)

\* C9: an item that validate_converted_data rejects is dropped, nothing is
\* put to storage for it, and the ingress worker keeps running.
C9_InvalidItemDoesNotStopIngress ==
    [][LET item == Head(converted_data_queue)
       IN (/\ IngressTakes
           /\ item.connector_name # GatewayName
           /\ ~ValidateConvertedData(item.data))
          => (ingress_alive' /\ h_puts' = h_puts)]_vars

\* C10: with the cloud connected, when the ingress worker processes a valid
\* item of a loaded connector c for a device d that is not in the registry,
\* then after the step the registry maps d to c, connected_devices.json
\* maps d to c's name, gw_connect_device was called once for d, and the
\* event was put to storage.
C10_AutoRegisterAndStore ==
    [][LET item == Head(converted_data_queue)
           d == item.data.deviceName
       IN (/\ IngressTakes
           /\ connected
           /\ item.connector_name \in Connectors
           /\ ValidateConvertedData(item.data)
           /\ d \notin DOMAIN GetDevices)
          => /\ d \in DOMAIN connected_devices'
             /\ connected_devices'[d].connector = item.connector_name
             /\ d \in DOMAIN devices_file'
             /\ devices_file'[d] = item.connector_name
             /\ h_connect_calls'[d] = h_connect_calls[d] + 1
             /\ h_puts' = h_puts + 1]_vars


(***************************************************************************)
(* Claims about buffering while the cloud is away.                         *)
(***************************************************************************)
\* the uplink worker checks a pack out of the storage in this step
ChecksOut == event_pack = <<>> /\ event_pack' # <<>>

\* the uplink worker hands data to the transport in this step
Publishes == Len(h_round') > Len(h_round)

\* C11: offline buffering.  While the cloud is disconnected the uplink
\* worker performs no checkout, no publish and no commit, and a pack is
\* committed only after the publishes of its events were acknowledged.
C11_NothingMovesWhileDisconnected ==
    [][/\ ChecksOut => connected
       /\ Publishes => connected
       /\ Commits => (connected /\ h_retired' \subseteq h_acked)]_vars

(***************************************************************************)
(* Claims about the pipeline from send_to_storage to the cloud.            *)
(***************************************************************************)
\* the events the storage holds
Stored == {storage_q[i] : i \in DOMAIN storage_q} \cup {event_pack[i] : i \in DOMAIN event_pack}

OwnStoredAsSelf == \A e \in Stored : e.id \in h_own => e.deviceName = SelfDevice

OwnPublishedOnSelfChannel ==
    \A i \in DOMAIN h_round : h_round[i].evs \cap h_own # {} => h_round[i].channel = "self"

\* C12: self-identity rewrite.  An item handed to send_to_storage under the
\* gateway's own name is stored with deviceName "currentThingsBoardGateway",
\* its processing registers no device, and every publish that carries its
\* telemetry or attributes goes through the self channel.
C12_SelfIdentityRewrite ==
    [][/\ OwnStoredAsSelf'
       /\ OwnPublishedOnSelfChannel'
       /\ (IngressTakes /\ Head(converted_data_queue).connector_name = GatewayName)
             => UNCHANGED <<connected_devices, saved_devices, devices_file, h_connect_calls>>]_vars

\* an item of the gateway's own name was stored and both its attributes and
\* its telemetry were published
C12_Witness ==
    /\ \E i \in DOMAIN h_round :
          h_round[i].evs \cap h_own # {} /\ h_round[i].kind = "telemetry"
    /\ \E i \in DOMAIN h_round :
          h_round[i].evs \cap h_own # {} /\ h_round[i].kind = "attributes"

(***************************************************************************)
(* Claims about requests of the cloud to the gateway itself.               *)
(***************************************************************************)
\* C13: on a tick of the main loop, every scheduled restart or reboot whose
\* time has passed is popped and invoked, once; the others stay in the list
\* and are not invoked; and the main loop keeps running, however many calls
\* are pending and whatever the order of their times.
C13_ScheduledCallsRunOnceWhenDue ==
    [][MainLoop =>
          /\ ~stopped'
          /\ \A i \in DOMAIN sheduled_rpc_calls :
                LET call == sheduled_rpc_calls[i]
                    pending == \E j \in DOMAIN sheduled_rpc_calls' : sheduled_rpc_calls'[j] = call
                IN IF now > call.run_at
                      THEN h_invoked'[call.id] = 1 /\ ~pending
                      ELSE h_invoked'[call.id] = 0 /\ pending]_vars

(***************************************************************************)
(* Claims about the expiry of RPC requests.                                *)
(***************************************************************************)
\* C14: on every tick of the main loop, each request in progress whose
\* deadline has elapsed has its cancel callback invoked once, gets a failure
\* reply and is gone from the map after the tick; the requests whose
\* deadline has not elapsed stay in the map unchanged.
C14_ExpiredCancelledOthersKept ==
    [][MainLoop =>
          \A topic \in DOMAIN rpc_requests_in_progress :
             LET data == rpc_requests_in_progress[topic]
             IN IF now >= data.timeout
                   THEN /\ h_cancelled'[data.id] = h_cancelled[data.id] + 1
                        /\ h_replies'[data.id] = Append(h_replies[data.id], "failure")
                        /\ \A t \in DOMAIN rpc_requests_in_progress' :
                              rpc_requests_in_progress'[t].id # data.id
                   ELSE /\ topic \in DOMAIN rpc_requests_in_progress'
                        /\ rpc_requests_in_progress'[topic] = data]_vars

\* the first result other than None in the order of the connectors
RECURSIVE FirstResult(_, _)
FirstResult(order, answers) ==
    IF order = <<>> THEN "None"
    ELSE IF answers[Head(order)] # "None" THEN answers[Head(order)]
    ELSE FirstResult(Tail(order), answers)

\* C15: the reply to a request without a device whose module is the type of
\* loaded connectors carries the result of the first connector of the type
\* that returned one; a later connector does not replace it.
C15_FirstConnectorResultWins ==
    (/\ h_requests > 0
     /\ h_handled.content.device = NoKey
     /\ h_handled.content.module = ConnectorType("c1"))
    => LET first == FirstResult(ConnectorOrder, h_handled.answers)
       IN h_gw_replies[h_requests] = <<IF first = "None" THEN "success false" ELSE first>>

\* C16: a request without a device whose module is no loaded connector type,
\* not "gateway" and no remote-shell command gets exactly one reply, the 404
\* "connector not found" reply, with the remote shell enabled or disabled.
C16_UnknownModuleGets404 ==
    (/\ h_requests > 0
     /\ h_handled.content.device = NoKey
     /\ h_handled.content.module # ConnectorType("c1")
     /\ h_handled.content.module # "gateway"
     /\ h_handled.content.module \notin ShellCommands)
    => h_gw_replies[h_requests] = <<"404 connector">>

\* C17: a device of the persisted file whose connector name matches no loaded
\* connector at startup is retained: it stays in the registry, without a live
\* connector, and stays in the file through the later mutations of the
\* registry.
C17_OrphansRetained ==
    \A d \in DOMAIN h_file0 :
        h_file0[d] \notin Connectors
        => /\ d \in DOMAIN connected_devices
           /\ connected_devices[d].connector = NoConnector
           /\ d \in DOMAIN devices_file

\* a completed call of del_device for a device of the registry
DelDeviceOf(d) ==
    /\ DelDeviceCall
    /\ d \in DOMAIN connected_devices
    /\ h_expected' = h_expected \ {d}

\* C18: del_device(name), for any device of the registry, added at run time
\* or loaded from the file at startup, removes it from the registry, sends
\* gw_disconnect_device(name) and rewrites the file without it.
C18_DelDeviceRemovesAnnouncesSaves ==
    [][\A d \in Devices :
          DelDeviceOf(d) =>
             /\ d \notin DOMAIN connected_devices'
             /\ h_disconnect_calls'[d] = h_disconnect_calls[d] + 1
             /\ d \notin DOMAIN devices_file']_vars

\* C19: after every completed mutation of the registry (add_device,
\* update_device of the connector, del_device) the file is the mapping from
\* device name to connector name of the registry in memory.
C19_FileMirrorsRegistry ==
    [][(\/ AddDeviceCall
        \/ UpdateDeviceCall
        \/ DelDeviceCall /\ h_disconnect_calls' # h_disconnect_calls)
          /\ connected_devices' # connected_devices
       => devices_file' = SavePersistentDevices(connected_devices')]_vars

\* C20: a failure in one unit of the work of an iteration of the main loop,
\* such as an exception raised by the cancel callback of an RPC request, does
\* not end the loop: after the iteration the gateway is not stopped.
C20_FailureDoesNotEndLoop ==
    [][(MainLoop \/ MainLoopCancelRaises) => ~stopped']_vars

(***************************************************************************)
(* Claims about the ingress worker and the reply flag.                     *)
(***************************************************************************)
\* the ingress worker takes an item and the storage does not take its event
Rejected == I_Process /\ h_last'.outcome = "rejected"

\* C21: when put returns False for an event, the event is dropped: the
\* storage is unchanged, put was called once, the item is not queued again,
\* and the ingress worker goes on with the next item of the queue;
\* send_to_storage never blocks the connector that calls it.
C21_RejectedEventDropped ==
    /\ [][Rejected => /\ storage_q' = storage_q
                      /\ event_pack' = event_pack
                      /\ h_puts' = h_puts + 1
                      /\ converted_data_queue' = Tail(converted_data_queue)
                      /\ ingress_alive']_vars
    /\ [](ingress_alive /\ converted_data_queue # <<>> => ENABLED I_Process)
    /\ [](h_sent < MaxIngest => ENABLED SendToStorage)

\* two items in a row were rejected by a full storage and the worker is alive
C21_Witness ==
    /\ h_last.outcome = "rejected"
    /\ h_puts = 2
    /\ Len(storage_q) = MaxStored
    /\ \A i \in DOMAIN storage_q : storage_q[i].id = 0
    /\ ingress_alive

\* C22: a call of send_rpc_reply with success_sent or content given, whose
\* publish does not raise, publishes exactly one reply: on the multiplexed
\* channel, keyed by the device, iff device is given, on the gateway's own
\* channel iff it is not; the body is {success: success_sent} when
\* success_sent is given, and content otherwise.
C22_OneReplyOfTheRightForm ==
    \A i \in DOMAIN h_reply_calls :
       LET call == h_reply_calls[i]
       IN (~call.raised /\ (call.success_sent # NoKey \/ call.content # NoKey))
          => /\ Len(call.published) = 1
             /\ call.published[1].channel = (IF call.device # NoKey THEN "gw" ELSE "self")
             /\ call.published[1].device = call.device
             /\ call.published[1].body =
                   (IF call.success_sent # NoKey
                       THEN [kind |-> "success", value |-> call.success_sent]
                       ELSE [kind |-> "content", value |-> call.content])

\* C28: every call of send_rpc_reply leaves __rpc_reply_sent False when it
\* returns, also when the publish of the transport raises, so that the uplink
\* worker does not wait for the flag forever.
C28_FlagClearedOnReturn ==
    [][SendRpcReplyCall => ~rpc_reply_sent']_vars

\* C23: while __rpc_reply_sent marks a reply as being transmitted by some
\* thread, the uplink worker starts no publish of telemetry or attributes,
\* the flushes made by check_size in the middle of a pack included.
C23_NoPublishWhileReplying ==
    [][Publishes => ~rpc_reply_sent /\ repliers = 0]_vars

(***************************************************************************)
(* Claims about concurrent calls of the registry.                          *)
(***************************************************************************)
\* every thread that entered add_device has returned
AllReturned == \A t \in Threads : add_threads[t].pc = "done"

\* C24: concurrent calls of add_device run their read-modify-persist
\* sequences one after the other: two calls for the same new name announce
\* the device once, and once both have returned the file is the registry in
\* memory.
C24_AddDeviceSerialized ==
    AllReturned
    => /\ \A d \in Devices : h_connect_calls[d] <= 1
       /\ devices_file = SavePersistentDevices(connected_devices)

\* the message counter of a connector, 0 when it has none
Counter(cim, c) == IF c \in DOMAIN cim THEN cim[c] ELSE 0

\* C25: the message counter of connector c is the number of valid items of c
\* the ingress worker has processed: each valid item adds one to it.
C25_CounterCountsValidItems ==
    [][LET item == Head(converted_data_queue)
           c == item.connector_name
       IN (/\ IngressTakes
           /\ c # GatewayName
           /\ ValidateConvertedData(item.data))
          => Counter(connector_incoming_messages', c)
                = Counter(connector_incoming_messages, c) + 1]_vars

\* the entries of a telemetry list that carry a ts, in input order
RECURSIVE WithTs(_)
WithTs(items) ==
    IF items = <<>> THEN <<>>
    ELSE IF Head(items).ts # 0 THEN <<Head(items)>> \o WithTs(Tail(items))
    ELSE WithTs(Tail(items))

\* the merge of the bare maps of a telemetry list: the value of a key is the
\* one of the last bare entry that has the key
BareKeys(items) == UNION {DOMAIN items[i].values : i \in {j \in DOMAIN items : items[j].ts = 0}}

LastBareWith(items, k) ==
    CHOOSE i \in DOMAIN items :
       /\ items[i].ts = 0 /\ k \in DOMAIN items[i].values
       /\ \A j \in DOMAIN items : (items[j].ts = 0 /\ k \in DOMAIN items[j].values) => j <= i

MergedBare(items) == [k \in BareKeys(items) |-> items[LastBareWith(items, k)].values[k]]

\* the ingress worker stores the event of an item that carries a telemetry list
StoresList ==
    /\ I_Process
    /\ h_last'.outcome = "stored"
    /\ h_last'.item.data.telemetry.shape = "list"

\* C26: if an entry of the item's telemetry has a ts, the stored telemetry is
\* the list of the entries with a ts, as {ts, values}, in input order;
\* otherwise it is the single {ts: now, values: m}, m being the merge of the
\* bare maps in input order, later keys over earlier ones.
C26_TelemetryNormalised ==
    [][StoresList =>
          LET items == h_last'.item.data.telemetry.items
              stored == storage_q'[Len(storage_q')].telemetry
          IN IF \E i \in DOMAIN items : items[i].ts # 0
                THEN stored = [shape |-> "list", items |-> WithTs(items)]
                ELSE stored = [shape |-> "obj",
                               items |-> <<[ts |-> now, values |-> MergedBare(items)]>>]]_vars

\* an item with two bare maps that share a key was stored, and so was an item
\* that mixes a bare map and an entry with a ts
C26_Witness ==
    /\ h_last.outcome = "stored"
    /\ h_puts = 2
    /\ Len(storage_q) >= 2
    /\ \E i, j \in DOMAIN storage_q :
          /\ storage_q[i].telemetry.shape = "obj"
          /\ storage_q[i].id # 0
          /\ DOMAIN storage_q[i].telemetry.items[1].values = {"k1", "k2"}
          /\ storage_q[j].telemetry.shape = "list"
          /\ storage_q[j].id # 0
          /\ storage_q[j].deviceName = "d2"

\* C27: with the cloud connected, a valid item without deviceType, of a
\* loaded connector and for a device that is not in the registry, registers
\* the device with device type "default" and its event is put to storage.
C27_MissingTypeDefaults ==
    [][LET item == Head(converted_data_queue)
           d == item.data.deviceName
       IN (/\ IngressTakes
           /\ connected
           /\ item.connector_name \in Connectors
           /\ ValidateConvertedData(item.data)
           /\ item.data.deviceType = NoKey
           /\ d \notin DOMAIN GetDevices)
          => /\ d \in DOMAIN connected_devices'
             /\ connected_devices'[d].device_type = "default"
             /\ h_puts' = h_puts + 1]_vars

\* C29: whenever the uplink worker publishes telemetry or attributes of a
\* device on the multiplexed channel, gw_connect_device was called for that
\* device before; so it is for the events of a device first seen while the
\* cloud was disconnected and published after the connection came back.
C29_AnnouncedBeforePublished ==
    [][Publishes =>
          \A i \in (Len(h_round) + 1)..Len(h_round') :
             h_round'[i].channel = "gw" => h_connect_calls[h_round'[i].device] > 0]_vars

(***************************************************************************)
(* Claims about shutdown.                                                  *)
(***************************************************************************)
\* the ingress worker calls put in this step
Puts == h_puts' > h_puts

\* C30: once __stop_gateway has set stopped and stopped the storage, neither
\* the ingress worker nor the uplink worker calls put, get_event_pack or
\* event_pack_processing_done any more.
C30_NoStorageCallsAfterStop ==
    [][stopped => ~Puts /\ ~U_Checkout /\ ~Commits]_vars
=============================================================================
